---- MODULE Spec2Model ----
(***************************************************************************)
(* A model of observe/senders/base.py (ObserveSender) and of the way       *)
(* observe/senders/langchain.py and base_test.py call it.                  *)
(*                                                                         *)
(* Threads: the delivery worker (_send_thread) and the calling threads     *)
(* (Callers), which run enqueue() and close().  The condition variable     *)
(* self.cond is modelled by its lock owner (lock), the flag that a notify  *)
(* reached the waiting worker (notified) and the time the worker has spent *)
(* in cond.wait (waited).  Time is counted in whole seconds.               *)
(*                                                                         *)
(* A record is [id, size]: id is the position of the record in the order   *)
(* of the successful enqueue calls (0 for a keepalive record), size is the *)
(* length of the line maybe_json gives for it.                             *)
(***************************************************************************)
EXTENDS Integers, Sequences, FiniteSets, TLC

\* ---------------------------------------------------------------- bounds
\* number of records the callers enqueue successfully
MaxEnq == 3
\* number of POSTs the endpoint fails
MaxFail == 2
\* seconds the clock runs
MaxTime == 3

\* ------------------------------------------------------------- constants
\* base.py:16, with OBSERVE_KEEPALIVE_INTERVAL=2 (any value in 1..300)
KEEPALIVE_INTERVAL == 2
\* base.py:18, the default 1.0
BATCH_SEND_DELAY == 1
\* base.py:21: the values of MAX_BACKLOG_SAVE the model runs with (the
\* environment sets any value in 0..1048576): one below the length of every
\* body, one that some bodies exceed and others do not
BacklogCaps == {2, 6}
\* base.py:167: the length of the line of a keepalive record, in the scale
\* of RecSizes
KeepaliveSize == 2

\* the calling threads
Callers == {"c1", "c2"}
\* the lengths of the lines of the records the callers enqueue
RecSizes == {2, 7}

VARIABLES
    MAX_BACKLOG_SAVE,   \* the module's MAX_BACKLOG_SAVE, set at import
    configComplete,     \* _config_complete() at construction
    accept_no_config,   \* self.accept_no_config
    sending,            \* self.sending: "thread", "None", or "absent" (never set)
    queue,              \* self.queue
    last_send,          \* self.last_send
    atexit_registered,  \* close is registered with atexit
    lock,               \* owner of self.cond: "free", "worker" or a caller
    notified,           \* a notify() reached the worker in cond.wait
    waited,             \* seconds the worker has spent in cond.wait, up to the timeout
    now,                \* time.time()
    wpc,                \* where the worker thread is
    sendq,              \* _do_post's local sendq
    cpc,                \* where each caller is
    thr,                \* close()'s local thr of each caller: "unbound" or "thread"
    last,               \* the last call that ended: [op, out, st]
    nextId,             \* id of the next record enqueued
    attempted,          \* ids of the records that were in some POST
    discarded,          \* ids of the records the backlog cap discarded
    delivered,          \* ids of the records of the successful POSTs, in order
    nPosts,             \* POSTs issued
    nFail,              \* POSTs failed
    lastPost,           \* how the latest POST ended: "none", "ok" or "failed"
    kaSinceSend,        \* keepalive records made since last_send was set
    kaDropped,          \* keepalive records discarded since last_send was set
    metadata_key,       \* self.metadata_key: "None", "" or a key
    data,               \* the dict given to enqueue
    appended,           \* what that enqueue appended to self.queue
    body                \* _do_post's local body, as its lines

vars == <<MAX_BACKLOG_SAVE, configComplete, accept_no_config, sending, queue, last_send,
          atexit_registered, lock, notified, waited, now, wpc, sendq, cpc,
          thr, last, nextId, attempted, discarded, delivered, nPosts,
          nFail, lastPost, kaSinceSend, kaDropped, metadata_key, data, appended,
          body>>

\* ------------------------------------------------------------ helpers
Ids(q) == {q[i].id : i \in 1..Len(q)}

RECURSIVE SumSizes(_)
SumSizes(q) == IF q = <<>> THEN 0 ELSE Head(q).size + 1 + SumSizes(Tail(q))

\* len(body): the lines joined with '\n', plus the final '\n'
BodyLen(q) == SumSizes(q)

Min(a, b) == IF a < b THEN a ELSE b

\* the keepalive records of q
KaCount(q) == Cardinality({i \in 1..Len(q) : q[i].id = 0})

\* SenderState of the spec, read off self.sending and the worker thread
State ==
    IF sending = "absent" THEN "NoConfig"
    ELSE IF sending = "thread" THEN "Running"
    ELSE IF wpc = "done" THEN "Closed" ELSE "Closing"

\* ------------------------------------------------------------ __init__
\* {}
EmptyDict == [k \in {} |-> "none"]

\* the sender after __init__ (or, with accept_no_config, what is left of it)
InitSender ==
    /\ MAX_BACKLOG_SAVE \in BacklogCaps
    /\ configComplete \in BOOLEAN
    /\ accept_no_config \in BOOLEAN
    \* incomplete configuration without accept_no_config raises: no object
    /\ configComplete \/ accept_no_config
    /\ sending = IF configComplete THEN "thread" ELSE "absent"
    /\ queue = <<>>
    /\ now = 0
    /\ last_send = 0
    /\ atexit_registered = configComplete
    /\ lock = "free"
    /\ notified = FALSE
    /\ waited = 0
    /\ wpc = IF configComplete THEN "start" ELSE "none"
    /\ sendq = <<>>
    /\ cpc = [c \in Callers |-> "idle"]
    /\ thr = [c \in Callers |-> "unbound"]
    /\ last = [op |-> "none", out |-> "none", st |-> "none"]
    /\ nextId = 1
    /\ attempted = {}
    /\ discarded = {}
    /\ delivered = <<>>
    /\ nPosts = 0
    /\ nFail = 0
    /\ lastPost = "none"
    /\ kaSinceSend = 0
    /\ kaDropped = 0

\* the records are followed by id and line length; their keys are followed
\* in SpecMerge
Init ==
    /\ InitSender
    /\ metadata_key = "None"
    /\ data = EmptyDict
    /\ appended = <<>>
    /\ body = <<>>

\* cond.notify(): wakes the worker if it is in cond.wait, lost otherwise
Notify == IF wpc = "waiting" THEN TRUE ELSE notified

histVars == <<nextId, attempted, discarded, delivered, nPosts, nFail,
              lastPost, kaSinceSend, kaDropped>>
cfgVars == <<MAX_BACKLOG_SAVE, configComplete, accept_no_config,
             metadata_key, data, appended, body>>
workerVars == <<wpc, sendq, waited>>

\* ------------------------------------------------------------- enqueue
\* enqueue(data) up to `with self.cond:`; without self.cond (the sender
\* returned early from __init__) the with statement raises AttributeError
enqueue_enter(c) ==
    /\ cpc[c] = "idle"
    /\ IF sending = "absent"
       THEN /\ last' = [op |-> "enqueue", out |-> "AttributeError", st |-> State]
            /\ UNCHANGED <<lock, cpc>>
       ELSE /\ lock = "free"
            \* the callers enqueue MaxEnq records in all
            /\ sending = "thread" => nextId <= MaxEnq
            /\ lock' = c
            /\ cpc' = [cpc EXCEPT ![c] = "enqueue"]
            /\ UNCHANGED last
    /\ UNCHANGED <<sending, queue, last_send, atexit_registered, notified, now, thr>>
    /\ UNCHANGED cfgVars /\ UNCHANGED workerVars /\ UNCHANGED histVars

\* the body of enqueue's with block, and the release of the lock
enqueue_body(c, size) ==
    /\ cpc[c] = "enqueue"
    /\ lock = c
    /\ IF sending # "thread"
       THEN /\ last' = [op |-> "enqueue",
                        out |-> IF accept_no_config THEN "ok_dropped" ELSE "Exception",
                        st |-> State]
            /\ UNCHANGED <<queue, notified, nextId>>
       ELSE /\ queue' = Append(queue, [id |-> nextId, size |-> size])
            /\ nextId' = nextId + 1
            /\ notified' = Notify
            /\ last' = [op |-> "enqueue", out |-> "ok", st |-> State]
    /\ lock' = "free"
    /\ cpc' = [cpc EXCEPT ![c] = "idle"]
    /\ UNCHANGED <<sending, last_send, atexit_registered, now, thr>>
    /\ UNCHANGED cfgVars /\ UNCHANGED workerVars
    /\ UNCHANGED <<attempted, discarded, delivered, nPosts, nFail, lastPost,
                   kaSinceSend, kaDropped>>

\* the call enqueue(kind, data) of langchain.py and base_test.py: enqueue
\* takes one argument besides self, so binding the arguments raises TypeError
enqueue_kind(c) ==
    /\ cpc[c] = "idle"
    /\ last' = [op |-> "enqueue_kind", out |-> "TypeError", st |-> State]
    /\ UNCHANGED <<sending, queue, last_send, atexit_registered, lock, notified,
                   now, cpc, thr>>
    /\ UNCHANGED cfgVars /\ UNCHANGED workerVars /\ UNCHANGED histVars

\* --------------------------------------------------------------- close
close_enter(c) ==
    /\ cpc[c] = "idle"
    /\ IF sending = "absent"
       THEN /\ last' = [op |-> "close", out |-> "AttributeError", st |-> State]
            /\ UNCHANGED <<lock, cpc, thr>>
       ELSE /\ lock = "free"
            /\ lock' = c
            /\ cpc' = [cpc EXCEPT ![c] = "close"]
            /\ thr' = [thr EXCEPT ![c] = "unbound"]
            /\ UNCHANGED last
    /\ UNCHANGED <<sending, queue, last_send, atexit_registered, notified, now>>
    /\ UNCHANGED cfgVars /\ UNCHANGED workerVars /\ UNCHANGED histVars

\* the body of close's with block, the release of the lock, and `if thr:`,
\* which raises UnboundLocalError when the with block did not assign thr
close_body(c) ==
    /\ cpc[c] = "close"
    /\ lock = c
    /\ IF sending = "thread"
       THEN /\ atexit_registered' = FALSE
            /\ thr' = [thr EXCEPT ![c] = "thread"]
            /\ sending' = "None"
            /\ notified' = Notify
            /\ cpc' = [cpc EXCEPT ![c] = "join"]
            /\ UNCHANGED last
       ELSE /\ last' = [op |-> "close", out |-> "UnboundLocalError", st |-> State]
            /\ cpc' = [cpc EXCEPT ![c] = "idle"]
            /\ UNCHANGED <<atexit_registered, thr, sending, notified>>
    /\ lock' = "free"
    /\ UNCHANGED <<queue, last_send, now>>
    /\ UNCHANGED cfgVars /\ UNCHANGED workerVars /\ UNCHANGED histVars

\* thr.join() returns once the worker thread has ended
close_join(c) ==
    /\ cpc[c] = "join"
    /\ wpc \in {"done", "crashed"}
    /\ cpc' = [cpc EXCEPT ![c] = "idle"]
    /\ thr' = [thr EXCEPT ![c] = "unbound"]
    /\ last' = [op |-> "close", out |-> "ok", st |-> State]
    /\ UNCHANGED <<sending, queue, last_send, atexit_registered, lock, notified,
                   now>>
    /\ UNCHANGED cfgVars /\ UNCHANGED workerVars /\ UNCHANGED histVars

\* -------------------------------------------------------------- worker
\* mutant of _is_time_for_keepalive: `not self.queue` left out
_is_time_for_keepalive_any_queue(q, time_since_last_send) ==
    time_since_last_send > KEEPALIVE_INTERVAL

_is_time_for_keepalive(q, time_since_last_send) ==
    q = <<>> /\ time_since_last_send > KEEPALIVE_INTERVAL

\* mutant of _is_time_to_post: the queue is not looked at
_is_time_to_post_any_queue(q, time_since_last_send) ==
    sending # "thread" \/ time_since_last_send > BATCH_SEND_DELAY

\* mutant of _is_time_to_post: the batch delay left out
_is_time_to_post_at_once(q, time_since_last_send) == q # <<>>

_is_time_to_post(q, time_since_last_send) ==
    q # <<>> /\ (sending # "thread" \/ time_since_last_send > BATCH_SEND_DELAY)

\* `return self.sending or self.queue`, as a truth value
\* mutant of KeepGoing: the loop never ends
KeepGoing_always(q) == TRUE

KeepGoing(q) == sending = "thread" \/ q # <<>>

\* mutant of numToDiscard: the +1 left out
numToDiscard_half(q) == Len(q) \div 2

\* numToDiscard = len(sendq)//2+1
numToDiscard(q) == (Len(q) \div 2) + 1

\* mutant of PutBack: the failed batch goes behind the queue
PutBack_behind(back, q) == q \o back

\* sendq.extend(self.queue); self.queue = sendq
PutBack(back, q) == back \o q

\* mutant of LockDuringPost: self.cond.release() left out
LockDuringPost_kept == "worker"

\* self.cond.release() before the POST: the owner of the lock during it
LockDuringPost == "free"

\* mutant of Requeued: `l >= MAX_BACKLOG_SAVE` for `l > MAX_BACKLOG_SAVE`
Requeued_at_cap(q, l) ==
    IF l >= MAX_BACKLOG_SAVE
    THEN SubSeq(q, Min(numToDiscard(q), Len(q)) + 1, Len(q))
    ELSE q

\* the batch that goes back to the queue after a failed POST of l bytes
Requeued(q, l) ==
    IF l > MAX_BACKLOG_SAVE
    THEN SubSeq(q, Min(numToDiscard(q), Len(q)) + 1, Len(q))
    ELSE q

\* _send_thread: `with self.cond:`
worker_start ==
    /\ wpc = "start"
    /\ lock = "free"
    /\ lock' = "worker"
    /\ wpc' = "loop"
    /\ UNCHANGED <<sending, queue, last_send, atexit_registered, notified, waited,
                   now, sendq, cpc, thr, last>>
    /\ UNCHANGED cfgVars /\ UNCHANGED histVars

\* mutant of QueueAfterTake: the queue keeps the batch
QueueAfterTake_kept(q) == q

\* _do_post: sendq = self.queue; self.queue = []
QueueAfterTake(q) == <<>>

\* the worker leaves _maybe_send_one with the value keep: cond.wait or exit
Leave(keep) ==
    /\ lock' = "free"
    /\ IF keep
       THEN wpc' = "waiting" /\ waited' = 0 /\ notified' = FALSE
       ELSE wpc' = "done" /\ UNCHANGED <<waited, notified>>

\* _maybe_send_one up to the POST (the start of _do_post, which releases the
\* lock) or, without a POST, up to cond.wait or the end of the thread
_maybe_send_one ==
    /\ wpc = "loop"
    /\ lock = "worker"
    /\ LET t == now - last_send
           q1 == IF _is_time_for_keepalive(queue, t)
                 THEN Append(queue, [id |-> 0, size |-> KeepaliveSize])
                 ELSE queue
       IN /\ kaSinceSend' = IF q1 = queue THEN kaSinceSend ELSE kaSinceSend + 1
          /\ IF _is_time_to_post(q1, t)
             THEN /\ sendq' = q1
                  /\ queue' = QueueAfterTake(q1)
                  /\ lock' = LockDuringPost
                  /\ wpc' = "posting"
                  /\ attempted' = attempted \cup Ids(q1)
                  /\ nPosts' = nPosts + 1
                  /\ UNCHANGED <<waited, notified>>
             ELSE /\ queue' = q1
                  /\ Leave(KeepGoing(q1))
                  /\ UNCHANGED <<sendq, attempted, nPosts>>
    /\ UNCHANGED <<sending, last_send, atexit_registered, now, cpc, thr, last>>
    /\ UNCHANGED cfgVars
    /\ UNCHANGED <<nextId, discarded, delivered, nFail, lastPost, kaDropped>>

\* mutant of LastSendAfterPost: set after every flush
LastSendAfterPost_always(ok) == now

\* _maybe_send_one: `if self._do_post(): self.last_send = time.time()`
LastSendAfterPost(ok) == IF ok THEN now ELSE last_send

\* requests.post returned a 2xx response; cond.acquire()
post_ok ==
    /\ wpc = "posting"
    /\ lock = "free"
    /\ lock' = "worker"
    /\ wpc' = "post_ok"
    /\ delivered' = delivered \o [i \in 1..Len(sendq) |-> sendq[i].id]
    /\ lastPost' = "ok"
    /\ UNCHANGED <<sending, queue, last_send, atexit_registered, notified, waited,
                   now, sendq, cpc, thr, last>>
    /\ UNCHANGED cfgVars
    /\ UNCHANGED <<nextId, attempted, discarded, nPosts, nFail, kaSinceSend, kaDropped>>

\* _do_post returned True: last_send, and the return of _maybe_send_one
after_post_ok ==
    /\ wpc = "post_ok"
    /\ lock = "worker"
    /\ last_send' = LastSendAfterPost(TRUE)
    /\ sendq' = <<>>
    /\ Leave(KeepGoing(queue))
    /\ kaSinceSend' = 0
    /\ kaDropped' = 0
    /\ UNCHANGED <<sending, queue, atexit_registered, now, cpc, thr, last>>
    /\ UNCHANGED cfgVars
    /\ UNCHANGED <<nextId, attempted, discarded, delivered, nPosts, nFail, lastPost>>

\* requests.post or raise_for_status raised: traceback, time.sleep(0.25)
post_fail ==
    /\ wpc = "posting"
    /\ nFail < MaxFail
    /\ nFail' = nFail + 1
    /\ lastPost' = "failed"
    /\ wpc' = "sleeping"
    /\ UNCHANGED <<sending, queue, last_send, atexit_registered, lock, notified,
                   waited, now, sendq, cpc, thr, last>>
    /\ UNCHANGED cfgVars
    /\ UNCHANGED <<nextId, attempted, discarded, delivered, nPosts, kaSinceSend,
                   kaDropped>>

\* the sleep ends; cond.acquire()
sleep_done ==
    /\ wpc = "sleeping"
    /\ lock = "free"
    /\ lock' = "worker"
    /\ wpc' = "post_failed"
    /\ UNCHANGED <<sending, queue, last_send, atexit_registered, notified, waited,
                   now, sendq, cpc, thr, last>>
    /\ UNCHANGED cfgVars /\ UNCHANGED histVars

\* the except branch of _do_post after cond.acquire(), _do_post returns
\* False, and the return of _maybe_send_one
after_post_failed ==
    /\ wpc = "post_failed"
    /\ lock = "worker"
    /\ LET back == Requeued(sendq, BodyLen(sendq))
           q1 == PutBack(back, queue)
       IN /\ queue' = q1
          /\ discarded' = discarded \cup (Ids(sendq) \ Ids(back))
          /\ kaDropped' = kaDropped + (KaCount(sendq) - KaCount(back))
          /\ IF sending # "thread"
             THEN Leave(FALSE)
             ELSE Leave(KeepGoing(q1))
    /\ sendq' = <<>>
    /\ last_send' = LastSendAfterPost(FALSE)
    /\ UNCHANGED <<sending, atexit_registered, now, cpc, thr, last>>
    /\ UNCHANGED cfgVars
    /\ UNCHANGED <<nextId, attempted, delivered, nPosts, nFail, lastPost, kaSinceSend>>

\* cond.wait(BATCH_SEND_DELAY) returns, on a notify or on the timeout, with
\* the lock held again
wait_return ==
    /\ wpc = "waiting"
    /\ notified \/ waited >= BATCH_SEND_DELAY
    /\ lock = "free"
    /\ lock' = "worker"
    /\ wpc' = "loop"
    /\ UNCHANGED <<sending, queue, last_send, atexit_registered, notified, waited,
                   now, sendq, cpc, thr, last>>
    /\ UNCHANGED cfgVars /\ UNCHANGED histVars

\* a second passes (the critical sections take no time)
Tick ==
    /\ now < MaxTime
    /\ lock = "free"
    /\ now' = now + 1
    /\ waited' = IF wpc = "waiting" THEN Min(waited + 1, BATCH_SEND_DELAY) ELSE waited
    /\ UNCHANGED <<sending, queue, last_send, atexit_registered, lock, notified,
                   wpc, sendq, cpc, thr, last>>
    /\ UNCHANGED cfgVars /\ UNCHANGED histVars

Next ==
    \/ \E c \in Callers : enqueue_enter(c)
    \/ \E c \in Callers, size \in RecSizes : enqueue_body(c, size)
    \/ \E c \in Callers : enqueue_kind(c)
    \/ \E c \in Callers : close_enter(c)
    \/ \E c \in Callers : close_body(c)
    \/ \E c \in Callers : close_join(c)
    \/ worker_start
    \/ _maybe_send_one
    \/ post_ok
    \/ post_fail
    \/ sleep_done
    \/ after_post_failed
    \/ after_post_ok
    \/ wait_return
    \/ Tick

Spec == Init /\ [][Next]_vars

\* ------------------------------------------- close() within the batch delay
\* a second passes, and close() is called no later than BATCH_SEND_DELAY
\* after the construction
TickEarly ==
    /\ sending = "thread" => now < BATCH_SEND_DELAY
    /\ Tick

\* the sender with an endpoint that accepts every POST and callers that
\* call enqueue(data) and close()
NextEarly ==
    \/ \E c \in Callers : enqueue_enter(c)
    \/ \E c \in Callers, size \in RecSizes : enqueue_body(c, size)
    \/ \E c \in Callers : close_enter(c)
    \/ \E c \in Callers : close_body(c)
    \/ \E c \in Callers : close_join(c)
    \/ worker_start
    \/ _maybe_send_one
    \/ post_ok
    \/ after_post_ok
    \/ wait_return
    \/ TickEarly

SpecEarly == Init /\ [][NextEarly]_vars

\* ------------------------------------------------- scheduling and progress
\* time never stops: beyond MaxTime the clock is kept and last_send is moved
\* back instead, which lets time.time() - self.last_send grow up to
\* KEEPALIVE_INTERVAL (beyond MaxTime no further keepalive is followed)
TickOn ==
    /\ lock = "free"
    /\ IF now < MaxTime
       THEN now' = now + 1 /\ last_send' = last_send
       ELSE /\ now' = now
            /\ last_send' = IF now - last_send < KEEPALIVE_INTERVAL
                             THEN last_send - 1 ELSE last_send
    /\ waited' = IF wpc = "waiting" THEN Min(waited + 1, BATCH_SEND_DELAY) ELSE waited
    /\ UNCHANGED <<sending, queue, atexit_registered, lock, notified,
                   wpc, sendq, cpc, thr, last>>
    /\ UNCHANGED cfgVars /\ UNCHANGED histVars

\* the value of OBSERVE_MAX_BACKLOG_SAVE of that sender
BacklogCapOn == 6

\* the lengths of the lines of the records that sender is given
RecSizesOn == {2}

\* a sender that was constructed with a complete configuration
InitOn ==
    /\ Init
    /\ configComplete
    /\ ~accept_no_config
    /\ MAX_BACKLOG_SAVE = BacklogCapOn

NextOn ==
    \/ \E c \in Callers : enqueue_enter(c)
    \/ \E c \in Callers, size \in RecSizesOn : enqueue_body(c, size)
    \/ \E c \in Callers : close_enter(c)
    \/ \E c \in Callers : close_body(c)
    \/ \E c \in Callers : close_join(c)
    \/ worker_start
    \/ _maybe_send_one
    \/ post_ok
    \/ post_fail
    \/ sleep_done
    \/ after_post_failed
    \/ after_post_ok
    \/ wait_return
    \/ TickOn

\* a thread that is runnable runs; a thread that waits for the lock gets it
\* (the critical sections are short); requests.post returns; time passes
Fairness ==
    /\ SF_vars(worker_start)
    /\ WF_vars(_maybe_send_one)
    /\ SF_vars(post_ok \/ post_fail)
    /\ SF_vars(sleep_done)
    /\ WF_vars(after_post_ok)
    /\ WF_vars(after_post_failed)
    /\ SF_vars(wait_return)
    /\ SF_vars(TickOn)
    /\ \A c \in Callers : WF_vars(\E size \in RecSizesOn : enqueue_body(c, size))
    /\ \A c \in Callers : WF_vars(close_body(c))
    /\ \A c \in Callers : WF_vars(close_join(c))

SpecFair == InitOn /\ [][NextOn]_vars /\ Fairness

\* ------------------------------------------------------ metadata enrichment
\* the keys of self.metadata
MetaKeys == {"hostname", "user", "pid", "uuid"}

\* the keys a caller's dict may hold
DataKeys == MetaKeys \cup {"timestamp", "meta", "a"}

\* the values of the metadata_key option ("None": not given)
MetadataKeyOptions == {"None", "", "meta", "pid"}

\* a value the caller set, a value the sender set
CallerValue == [by |-> "caller"]
SenderValue == [by |-> "sender"]

\* self.metadata
metadata == [k \in MetaKeys |-> SenderValue]

\* {"timestamp": timestamp}
Timestamp == [k \in {"timestamp"} |-> SenderValue]

\* {key: value}
Single(key, value) == [k \in {key} |-> value]

merge2(a, b) ==
    [k \in DOMAIN a \cup DOMAIN b |-> IF k \in DOMAIN a THEN a[k] ELSE b[k]]

RECURSIVE merge_last_wins(_)
\* mutant of merge: a later source overrides an earlier one
merge_last_wins(srcs) ==
    IF srcs = <<>> THEN EmptyDict
    ELSE merge2(merge_last_wins(Tail(srcs)), Head(srcs))

RECURSIVE merge(_)
\* merge(*srcs): a key keeps the value of the first source that has it
merge(srcs) ==
    IF srcs = <<>> THEN EmptyDict
    ELSE merge2(Head(srcs), merge(Tail(srcs)))

\* the dict enqueue appends for data d
Enriched(d) ==
    IF metadata_key \notin {"None", ""}
    THEN merge(<<d, Single(metadata_key, merge(<<metadata, Timestamp>>))>>)
    ELSE IF metadata_key # ""
         THEN merge(<<d, metadata, Timestamp>>)
         ELSE d

InitMerge ==
    /\ InitSender
    /\ configComplete
    /\ ~accept_no_config
    /\ MAX_BACKLOG_SAVE = BacklogCapOn
    /\ metadata_key \in MetadataKeyOptions
    /\ \E keys \in SUBSET DataKeys : data = [k \in keys |-> CallerValue]
    /\ appended = <<>>
    /\ body = <<>>

\* enqueue(data) on the running sender, as far as the dict is concerned
enqueue_merge ==
    /\ sending = "thread"
    /\ appended = <<>>
    /\ appended' = <<Enriched(data)>>
    /\ UNCHANGED <<MAX_BACKLOG_SAVE, configComplete, accept_no_config, sending,
                   queue, last_send, atexit_registered, lock, notified, waited,
                   now, wpc, sendq, cpc, thr, last, metadata_key, data, body>>
    /\ UNCHANGED histVars

NextMerge == enqueue_merge

SpecMerge == InitMerge /\ [][NextMerge]_vars

\* ------------------------------------------------ the body of a POST
\* what a record holds: values json.dumps encodes, a value it rejects (a
\* UUID, an object), a str with a lone surrogate (json.dumps with
\* ensure_ascii=False passes it on, str.encode('utf-8') rejects it)
RecKinds == {"plain", "opaque", "surrogate"}

\* the batches _do_post may take from the queue
Batches ==
    UNION {[1..n -> {[id |-> 0, size |-> KeepaliveSize, kind |-> k] : k \in RecKinds}]
           : n \in 1..MaxEnq}

\* what the record x holds (a record followed by id and line length only
\* holds values json.dumps encodes)
Kind(x) == IF "kind" \in DOMAIN x THEN x.kind ELSE "plain"

\* maybe_json(x): the line of x; json.dumps escapes every line break
maybe_json(x) ==
    IF Kind(x) = "opaque"
    THEN [keys |-> {"_unsupported", "error"}, newlines |-> 0, utf8 |-> TRUE]
    ELSE [keys |-> {"a"}, newlines |-> 0, utf8 |-> Kind(x) # "surrogate"]

\* [maybe_json(x) for x in sendq]
Lines(q) == [i \in 1..Len(q) |-> maybe_json(q[i])]

\* ('\n'.join(...) + '\n').encode('utf-8') returns
Utf8Encodable(lines) == \A i \in 1..Len(lines) : lines[i].utf8

\* a running sender at time t with the worker at pc, self.queue = q and
\* _do_post's sendq = sq
SenderAt(pc, t, q, sq) ==
    /\ MAX_BACKLOG_SAVE = BacklogCapOn
    /\ configComplete = TRUE
    /\ accept_no_config = FALSE
    /\ sending = "thread"
    /\ queue = q
    /\ now = t
    /\ last_send = 0
    /\ atexit_registered = TRUE
    /\ lock = "free"
    /\ notified = FALSE
    /\ waited = 0
    /\ wpc = pc
    /\ sendq = sq
    /\ cpc = [c \in Callers |-> "idle"]
    /\ thr = [c \in Callers |-> "unbound"]
    /\ last = [op |-> "none", out |-> "none", st |-> "none"]
    /\ nextId = Len(q) + Len(sq) + 1
    /\ attempted = Ids(sq)
    /\ discarded = {}
    /\ delivered = <<>>
    /\ nPosts = 0
    /\ nFail = 0
    /\ lastPost = "none"
    /\ kaSinceSend = 0
    /\ kaDropped = 0
    /\ metadata_key = "None"
    /\ data = EmptyDict
    /\ appended = <<>>
    /\ body = <<>>

\* the worker in _do_post after `self.queue = []` and cond.release()
InitEncode ==
    \E b \in Batches :
        SenderAt("encoding", MaxTime, <<>>,
                 [i \in 1..Len(b) |-> [id |-> i, size |-> b[i].size, kind |-> b[i].kind]])

\* body = (...).encode('utf-8'); l = len(body); requests.post is called.
\* If encode raises, the except branch runs with l unbound: traceback, sleep
do_post_encode ==
    /\ wpc = "encoding"
    /\ IF Utf8Encodable(Lines(sendq))
       THEN /\ body' = Lines(sendq)
            /\ nPosts' = nPosts + 1
            /\ wpc' = "posting"
       ELSE /\ wpc' = "encode_failed"
            /\ UNCHANGED <<body, nPosts>>
    /\ UNCHANGED <<MAX_BACKLOG_SAVE, configComplete, accept_no_config, sending,
                   queue, last_send, atexit_registered, lock, notified, waited,
                   now, sendq, cpc, thr, last, metadata_key, data, appended>>
    /\ UNCHANGED <<nextId, attempted, discarded, delivered, nFail, lastPost,
                   kaSinceSend, kaDropped>>

\* the except branch after a failed encode: cond.acquire(), then
\* `if l > MAX_BACKLOG_SAVE` raises UnboundLocalError, which leaves _do_post,
\* _maybe_send_one and `with self.cond:`; the thread ends, sendq is gone
except_l_unbound ==
    /\ wpc = "encode_failed"
    /\ lock = "free"
    /\ wpc' = "crashed"
    /\ sendq' = <<>>
    /\ lastPost' = "failed"
    /\ UNCHANGED <<sending, queue, last_send, atexit_registered, lock, notified,
                   waited, now, cpc, thr, last>>
    /\ UNCHANGED cfgVars
    /\ UNCHANGED <<nextId, attempted, discarded, delivered, nPosts, nFail,
                   kaSinceSend, kaDropped>>

NextEncode ==
    \/ do_post_encode
    \/ except_l_unbound
    \/ post_ok
    \/ post_fail
    \/ sleep_done
    \/ after_post_failed
    \/ after_post_ok

SpecEncode == InitEncode /\ [][NextEncode]_vars

\* --------------------------------- a record that cannot be encoded to UTF-8
\* the sender after enqueue({'s': '\ud800'}) has returned
InitCrash ==
    SenderAt("start", 0, <<[id |-> 1, size |-> 2, kind |-> "surrogate"]>>, <<>>)

\* _do_post: encode('utf-8') raises; the except branch runs: traceback, sleep
encode_raises ==
    /\ wpc = "posting"
    /\ ~Utf8Encodable(Lines(sendq))
    /\ wpc' = "encode_failed"
    /\ UNCHANGED <<sending, queue, last_send, atexit_registered, lock, notified,
                   waited, now, sendq, cpc, thr, last>>
    /\ UNCHANGED cfgVars /\ UNCHANGED histVars

NextCrash ==
    \/ \E c \in Callers : enqueue_enter(c)
    \/ \E c \in Callers, size \in RecSizesOn : enqueue_body(c, size)
    \/ \E c \in Callers : close_enter(c)
    \/ \E c \in Callers : close_body(c)
    \/ \E c \in Callers : close_join(c)
    \/ worker_start
    \/ _maybe_send_one
    \/ encode_raises
    \/ except_l_unbound
    \/ wait_return
    \/ TickOn

FairnessCrash ==
    /\ SF_vars(worker_start)
    /\ WF_vars(_maybe_send_one)
    /\ WF_vars(encode_raises)
    /\ SF_vars(except_l_unbound)
    /\ SF_vars(wait_return)
    /\ SF_vars(TickOn)
    /\ \A c \in Callers : WF_vars(\E size \in RecSizesOn : enqueue_body(c, size))
    /\ \A c \in Callers : WF_vars(close_body(c))
    /\ \A c \in Callers : WF_vars(close_join(c))

SpecCrash == InitCrash /\ [][NextCrash]_vars /\ FairnessCrash

\* ================================================================ claims
\* the caller records of the successful POSTs, in the order sent
DeliveredRecords == SelectSeq(delivered, LAMBDA x : x # 0)

Range(f) == {f[i] : i \in DOMAIN f}

\* the ids of the records enqueued so far
Enqueued == 1..(nextId - 1)

\* C1: on a started sender every call of close(), the first, a later or a
\* concurrent one, returns normally.  (The other half of the claim, that a
\* later close() changes nothing and causes no POST, is C1_LaterCloseNoEffect.)
C1_CloseReturnsNormally ==
    (last.op = "close" /\ last.st # "NoConfig") => last.out = "ok"

\* C1, second half: the body of a close() that finds the sender already
\* closed leaves the sender, the worker and the POSTs as they are.
C1_LaterCloseNoEffect ==
    [][\A c \in Callers :
        (cpc[c] = "close" /\ cpc'[c] # "close" /\ sending # "thread")
        => UNCHANGED <<sending, queue, last_send, atexit_registered, wpc,
                       sendq, nPosts, delivered>>]_vars

\* C2: on a sender built without configuration and with accept_no_config,
\* enqueue() and close() return normally, there is no worker and no POST.
C2_NoConfigNoop ==
    sending = "absent"
    => /\ wpc = "none"
       /\ nPosts = 0
       /\ last.op \in {"enqueue", "close"} => last.out \in {"ok", "ok_dropped"}

\* C3: when close() has returned, every record enqueued was in a POST or
\* was discarded by the backlog cap.
C3_CloseAttemptsAll ==
    (last.op = "close" /\ last.out = "ok")
    => \A i \in Enqueued : i \in attempted \cup discarded

C5_EnqueueKindReturns ==
    (last.op = "enqueue_kind" /\ last.st = "Running") => last.out = "ok"

\* C5 for the call enqueue(data), which binds: while the sender is Running
\* it returns without error, appends one record behind the records queued
\* and notifies the worker.
C5_EnqueueDataAppends ==
    [][\A c \in Callers :
        (cpc[c] = "enqueue" /\ cpc'[c] # "enqueue" /\ sending = "thread")
        => /\ last' = [op |-> "enqueue", out |-> "ok", st |-> "Running"]
           /\ Len(queue') = Len(queue) + 1
           /\ SubSeq(queue', 1, Len(queue)) = queue
           /\ queue'[Len(queue')].id = nextId
           /\ notified' = (notified \/ wpc = "waiting")]_vars

\* a step that adds no caller record to the queue
NoRecordAdded ==
    /\ nextId' = nextId
    /\ (Ids(queue') \cup Ids(sendq')) \ {0} \subseteq Ids(queue) \cup Ids(sendq)

\* C6: an enqueue call made in state Closing or Closed fails with an error
\* when accept_no_config is not set, returns normally when it is set, and no
\* record is enqueued in these states.
C6_EnqueueAfterClose ==
    /\ [](last.op \in {"enqueue", "enqueue_kind"} /\ last.st \in {"Closing", "Closed"}
          => IF accept_no_config
             THEN last.out = "ok_dropped"
             ELSE last.out \in {"Exception", "TypeError"})
    /\ [][(State \in {"Closing", "Closed"}) => NoRecordAdded]_vars

\* C6 for the call enqueue(data), which binds: in state Closing or Closed it
\* raises without accept_no_config and returns with it, and no record is
\* enqueued in these states.
C6_EnqueueDataAfterClose ==
    /\ [](last.op = "enqueue" /\ last.st \in {"Closing", "Closed"}
          => last.out = IF accept_no_config THEN "ok_dropped" ELSE "Exception")
    /\ [][(State \in {"Closing", "Closed"}) => NoRecordAdded]_vars

\* the step in which the worker puts a failed batch back (after_post_failed)
RequeueStep == wpc = "post_failed" /\ wpc' # "post_failed"

\* in a RequeueStep: the records put back in front of the queue, and the
\* records that were in the queue before
PutBackOf == SubSeq(queue', 1, Len(queue') - Len(queue))
BehindPutBack == SubSeq(queue', Len(queue') - Len(queue) + 1, Len(queue'))

\* C7: after every failed flush the serialized size of the records put
\* back into the queue is at most MAX_BACKLOG_SAVE.
C7_BacklogWithinCap ==
    [][RequeueStep => BodyLen(PutBackOf) <= MAX_BACKLOG_SAVE]_vars

\* C7, amended: a failed batch of at most MAX_BACKLOG_SAVE bytes is put back
\* whole; of a larger one fewer than half of the records are put back, and
\* their size is below the size of the batch (it can still exceed the cap).
C7_BacklogHalved ==
    [][RequeueStep =>
         IF BodyLen(sendq) <= MAX_BACKLOG_SAVE
         THEN PutBackOf = sendq /\ BodyLen(PutBackOf) <= MAX_BACKLOG_SAVE
         ELSE /\ 2 * Len(PutBackOf) < Len(sendq)
              /\ BodyLen(PutBackOf) < BodyLen(sendq)]_vars

\* C7's case: the records put back after a failed POST and a truncation are
\* larger than MAX_BACKLOG_SAVE.
C7_Witness ==
    /\ wpc = "waiting" /\ ~notified
    /\ lastPost = "failed"
    /\ discarded # {}
    /\ queue # <<>>
    /\ Ids(queue) \subseteq attempted
    /\ BodyLen(queue) > MAX_BACKLOG_SAVE

\* C8: a failed batch of n records larger than MAX_BACKLOG_SAVE loses
\* exactly its first n \div 2 + 1 records and the others go back in order; a
\* batch that is not larger loses none; the records that came in during the
\* POST stay, in order, behind the records put back.
C8_OldestHalfPlusOne ==
    [][RequeueStep =>
         LET n == Len(sendq)
             d == IF BodyLen(sendq) > MAX_BACKLOG_SAVE THEN (n \div 2) + 1 ELSE 0
         IN /\ Len(PutBackOf) = (IF d > n THEN 0 ELSE n - d)
            /\ \A i \in 1..Len(PutBackOf) : PutBackOf[i] = sendq[i + d]
            /\ BehindPutBack = queue
            /\ discarded' \ discarded \subseteq Ids(sendq) \ Ids(PutBackOf)]_vars

\* C8's case: a truncation has discarded records, and a record that came in
\* during the POST is in the queue.
C8_Witness ==
    /\ wpc = "waiting" /\ ~notified
    /\ lastPost = "failed"
    /\ discarded \ {0} # {}
    /\ \E i \in Ids(queue) : i \notin attempted

\* the worker's wake cycle: one call of _maybe_send_one
WakeCycle == wpc = "loop" /\ wpc' # "loop"

\* what C9 says of a single step: at most one keepalive record is made, in a
\* wake cycle that finds the queue empty and the last send more than
\* KEEPALIVE_INTERVAL ago, and such a wake cycle makes one
KeepaliveStep ==
    /\ kaSinceSend' <= kaSinceSend + 1
    /\ kaSinceSend' > kaSinceSend
       => WakeCycle /\ queue = <<>> /\ now - last_send > KEEPALIVE_INTERVAL
    /\ (WakeCycle /\ queue = <<>> /\ now - last_send > KEEPALIVE_INTERVAL)
       => /\ kaSinceSend' = kaSinceSend + 1
          /\ KaCount(queue') + KaCount(sendq') = 1

\* C9: a wake cycle makes at most one keepalive record, and only with the
\* queue empty and the last successful send more than KEEPALIVE_INTERVAL
\* ago; with no enqueues, one keepalive record is made per last successful
\* send.
C9_OneKeepalivePerInterval ==
    /\ [][KeepaliveStep]_vars
    /\ [](nextId = 1 => kaSinceSend <= 1)

\* C9, amended: ... since the last successful send one keepalive record is
\* made, and one more for each keepalive record the backlog cap discarded.
C9_OneKeepaliveUnlessDiscarded ==
    /\ [][KeepaliveStep]_vars
    /\ [](kaSinceSend <= 1 + kaDropped)
    /\ [](KaCount(queue) + KaCount(sendq) <= 1)

\* C9's case: with no enqueue at all, a keepalive record whose POST failed
\* was discarded and a second one was made.
C9_Witness ==
    /\ nextId = 1
    /\ kaSinceSend = 2
    /\ kaDropped = 1
    /\ wpc = "posting"

\* C10: during the POST and during the sleep after a failed POST the worker
\* does not hold the lock, and the lock is free unless a caller is in its
\* critical section; the queue, self.sending and last_send change only in
\* a step of the thread that holds the lock.
C10_LockReleasedDuringPost ==
    /\ [](wpc \in {"posting", "sleeping"}
          => /\ lock # "worker"
             /\ (\A c \in Callers : cpc[c] \notin {"enqueue", "close"}) => lock = "free")
    /\ [][(<<queue, sending, last_send>>' # <<queue, sending, last_send>>)
          => \/ lock = "worker" /\ wpc' # wpc
             \/ \E c \in Callers : lock = c /\ cpc'[c] # cpc[c]]_vars

\* C10's case: a caller is inside enqueue's critical section while the worker
\* sleeps after a failed POST.
C10_Witness ==
    /\ wpc = "sleeping"
    /\ \E c \in Callers : lock = c /\ cpc[c] = "enqueue"

FailedFlushAfterClose == RequeueStep /\ sending # "thread"

\* C12: after close() of a running sender, with every POST returning, the
\* worker eventually exits and the close() call returns; a flush that fails
\* once close() has been called is the worker's last: it exits in that step.
C12_CloseTerminates ==
    /\ (sending = "None") ~> (wpc = "done" /\ \A c \in Callers : cpc[c] # "join")
    /\ [][FailedFlushAfterClose => wpc' = "done"]_vars
    /\ [][wpc = "done" => wpc' = "done" /\ nPosts' = nPosts]_vars

\* C12's case: close() has returned after a flush that failed while Closing
C12_Witness ==
    /\ wpc = "done"
    /\ last = [op |-> "close", out |-> "ok", st |-> "Closed"]
    /\ lastPost = "failed"
    /\ queue # <<>>

\* the sub-mapping the sender nests under metadata_key
NestedMetadata == [k \in MetaKeys \cup {"timestamp"} |-> SenderValue]

\* the caller's keys are in the appended dict r with the caller's values
CallerKeysKept(r) == \A k \in DOMAIN data : k \in DOMAIN r /\ r[k] = data[k]

\* without a nesting key: the five fields are added where the caller has none
FlatEnrichment(r) ==
    /\ DOMAIN r = DOMAIN data \cup MetaKeys \cup {"timestamp"}
    /\ \A k \in DOMAIN r \ DOMAIN data : r[k] = SenderValue

\* C13 as stated: the caller's keys are never overridden; no nesting key:
\* the five fields are added where absent; a non-empty nesting key: the
\* metadata and the timestamp are a sub-mapping under it and nothing else is
\* added; the empty nesting key: the dict is queued as it is.
C13_MetadataEnrichment ==
    appended # <<>> =>
        LET r == appended[1]
        IN /\ CallerKeysKept(r)
           /\ metadata_key = "None" => FlatEnrichment(r)
           /\ metadata_key \notin {"None", ""}
              => /\ DOMAIN r = DOMAIN data \cup {metadata_key}
                 /\ DOMAIN r[metadata_key] = DOMAIN NestedMetadata
           /\ metadata_key = "" => r = data

\* C13, amended: with a non-empty nesting key the sub-mapping is added only
\* if the caller's dict does not have that key; if it has, the dict is queued
\* with no metadata at all.
C13_MetadataUnlessKeyTaken ==
    appended # <<>> =>
        LET r == appended[1]
        IN /\ CallerKeysKept(r)
           /\ metadata_key = "None" => FlatEnrichment(r)
           /\ (metadata_key \notin {"None", ""} /\ metadata_key \notin DOMAIN data)
              => /\ DOMAIN r = DOMAIN data \cup {metadata_key}
                 /\ r[metadata_key] = NestedMetadata
           /\ (metadata_key \notin {"None", ""} /\ metadata_key \in DOMAIN data)
              => r = data
           /\ metadata_key = "" => r = data

\* C13's case: a dict that sets hostname and the nesting key itself was
\* enqueued with nesting key "meta"
C13_Witness ==
    /\ appended # <<>>
    /\ metadata_key = "meta"
    /\ {"hostname", "meta"} \subseteq DOMAIN data
    /\ appended[1] = data

\* the number of lines of a body
RECURSIVE NumLines(_)
NumLines(lines) ==
    IF lines = <<>> THEN 0 ELSE 1 + Head(lines).newlines + NumLines(Tail(lines))

\* C14: a record with a non-encodable value makes no flush fail and does not
\* end the worker; its line is the fallback with the keys _unsupported and
\* error; the body of a POST has one line per record of the batch, in order.
C14_UnencodableNeverCrashes ==
    /\ wpc # "crashed"
    /\ wpc = "posting"
       => /\ NumLines(body) = Len(sendq)
          /\ body = Lines(sendq)

\* C14 for the values json.dumps rejects: the line is the fallback, and the
\* body of each POST has one line per record, in order
C14_FallbackLine ==
    /\ \A i \in 1..Len(sendq) :
          sendq[i].kind = "opaque"
          => maybe_json(sendq[i]).keys = {"_unsupported", "error"}
    /\ wpc = "posting"
       => /\ NumLines(body) = Len(sendq)
          /\ \A i \in 1..Len(sendq) :
                body[i].keys = IF sendq[i].kind = "opaque"
                               THEN {"_unsupported", "error"} ELSE {"a"}

\* a POST is started
PostStart == nPosts' # nPosts

\* C15: a POST is started only by the worker in its loop, with no other POST
\* in flight, with a non-empty batch, and only if the sender is Closing or
\* Closed or more than BATCH_SEND_DELAY has passed since last_send.
C15_PostOnlyWhenDue ==
    [][PostStart =>
          /\ wpc = "loop" /\ wpc' = "posting"
          /\ nPosts' = nPosts + 1
          /\ sendq' # <<>>
          /\ sending # "thread" \/ now - last_send > BATCH_SEND_DELAY]_vars

\* C15's case: a batch of two records is being posted by a running sender
C15_Witness ==
    /\ wpc = "posting"
    /\ sending = "thread"
    /\ Len(sendq) = 2
    /\ KaCount(sendq) = 0
    /\ now - last_send > BATCH_SEND_DELAY

\* the POST of sendq is in flight or has failed and is not yet put back
InFlight == wpc \in {"posting", "sleeping", "post_failed"}

FlushFailedStep ==
    /\ wpc \in {"post_failed", "encode_failed"}
    /\ wpc' \notin {"post_failed", "encode_failed"}

\* C17: a flush that fails while the sender is Running leaves the worker in
\* its loop (it goes on to cond.wait) and changes no caller's outcome; a
\* flush that fails once close() was called ends the worker in that step,
\* and an ended worker issues no POST.
C17_FailedFlushKeepsWorker ==
    [][/\ FlushFailedStep
          => /\ IF sending = "thread" THEN wpc' = "waiting" ELSE wpc' = "done"
             /\ last' = last /\ cpc' = cpc
       /\ wpc \in {"done", "crashed"} => nPosts' = nPosts /\ wpc' = wpc]_vars

\* C18: last_send changes only in the worker's step that follows a
\* successful POST, where it becomes the current time; enqueue, close, the
\* keepalive, a wake cycle without a POST and a failed flush leave it as it is.
C18_LastSendOnlyAfterSuccess ==
    [][last_send' # last_send
          => /\ wpc = "post_ok" /\ lock = "worker"
             /\ lastPost = "ok"
             /\ last_send' = now]_vars

\* C18's case: a flush failed and last_send stayed 0, the next one succeeded
\* and set it, and a record enqueued since waits with time going on
C18_Witness ==
    /\ last_send > 0
    /\ now > last_send
    /\ lastPost = "ok"
    /\ nFail = 1
    /\ wpc = "waiting"
    /\ queue # <<>>

\* the worker thread has ended
WorkerEnded == wpc \in {"done", "crashed"}

\* C19: self.sending, once cleared by close(), is never set again; the
\* worker thread never ends while the sender is Running, that is, it ends
\* only after close() was called; and an ended worker stays ended.
C19_StateOnlyForward ==
    /\ [](WorkerEnded => sending # "thread")
    /\ [][sending # "thread" => sending' = sending]_vars
    /\ [][WorkerEnded => wpc' = wpc]_vars

\* C20: while close() is not called, a record in the queue is eventually
\* part of a flush attempt.
C20_EnqueuedEventuallyAttempted ==
    \A i \in 1..MaxEnq :
        (i \in Ids(queue) /\ sending = "thread")
            ~> (i \in attempted \/ sending # "thread")
====
